---------------------------- MODULE Spec2Model ----------------------------
(***************************************************************************)
(* BottleSaml: a SAML2 service provider for Bottle.                        *)
(*                                                                         *)
(*   reqID.py     ReqID     request ids (correlation tokens)               *)
(*   SamlSP.py    SamlSP    login flow, the /saml/acs callback, session    *)
(*   SamlAuth.py  SamlAuth  the per-route authentication/authorization     *)
(*                          decorators                                     *)
(*                                                                         *)
(* Python values are modelled as records [kind, vals]: a str is            *)
(* [kind |-> "str", vals |-> <<s>>], a list of str is                      *)
(* [kind |-> "list", vals |-> <<s1, ..., sn>>], None is [kind |-> "none"], *)
(* and a missing dict key is [kind |-> "absent"].  A call's outcome is a   *)
(* string: "True", "False", or "raise" when an exception leaves the call.  *)
(* The clock `now` is int(time.time()): whole seconds.                     *)
(***************************************************************************)
EXTENDS Integers, Sequences, FiniteSets, TLC

(***************************************************************************)
(* Bounds of the model.                                                    *)
(***************************************************************************)
\* the clock runs from 0 to MaxTime
MaxTime == 2
\* reqid_life (the request id's ttl) is drawn from 0..MaxTtl
MaxTtl == 1
\* authz_by_prefix holds at most MaxPrefixes prefixes
MaxPrefixes == 2
\* auth_duration is drawn from 0..MaxDuration
MaxDuration == 1
\* at most MaxHooks login hooks are added to SamlSP's own
MaxHooks == 1
\* at most MaxIssued request ids are handed out in the login flow
MaxIssued == 1
\* The longest app.plugins.
MaxPlugins == 4
\* the number of browsers that post to /saml/acs side by side
MaxBrowsers == 2

(***************************************************************************)
(* Program constants.                                                      *)
(***************************************************************************)
\* len('ReqID'), the default id of ReqID.__init__, the only one SamlSP uses
IdLen == 5

VARIABLES
    now,        \* int(time.time())
    \* reqID.py
    DEBUG,      \* reqID.DEBUG = os.getenv('DEBUG', False), truthy or not
    idp_ok,     \* SamlSP.idp_ok, ReqID's idpok
    ttl,        \* ReqID.ttl  (config 'reqid_life')
    issued,     \* request ids handed out so far (held by browsers and the
                \* IdP; ReqID itself keeps no record of them)
    vres,       \* the last call of ReqID.validate_requestID and its outcome
    \* SamlSP.py
    session,    \* request.session of the one browser session of the model
    authres,    \* the last evaluation of SamlSP.is_authenticated
    assertions, \* config 'assertions', as configured
    saml_attrs, \* SamlSP.saml_attrs: config 'assertions', lower-cased
    attr_uid,   \* SamlSP.attr_uid (config 'user_attr')
    auth_duration,  \* SamlSP.auth_duration
    login_hooks,    \* SamlSP.login_hooks
    acs,        \* the last POST to /saml/acs and its response
    extract,    \* the last call of SamlSP.__build_attrs_list and its result
    \* SamlAuth.py
    authn_all_routes,   \* SamlAuth.authn_all_routes: TRUE is opt-out mode
    authz_by_prefix,    \* SamlAuth.authz_by_prefix, a dict prefix -> dict
    app_route,          \* the route of the application under study
    req,                \* the last request served and its response
    app_plugins,        \* app.plugins of the Bottle application
    install,            \* the last app.install(plugin) and its outcome
    browsers            \* several browsers: the session of each and its last
                        \* POST to /saml/acs

reqid_config == <<DEBUG, idp_ok, ttl>>
saml_config == <<assertions, saml_attrs, attr_uid, auth_duration, login_hooks>>
auth_config == <<authn_all_routes, authz_by_prefix, app_route>>
app_state == <<app_plugins, install>>

vars == <<now, reqid_config, issued, vres, session, authres, saml_config, acs,
          extract, auth_config, req, app_state, browsers>>

(***************************************************************************)
(* reqID.py                                                                *)
(***************************************************************************)

\* Fernet.encrypt(data): version (1) + timestamp (8) + iv (16) +
\* AES-CBC ciphertext with PKCS7 padding + HMAC (32), in bytes.
FernetBytes(n) == 1 + 8 + 16 + 16 * ((n \div 16) + 1) + 32

\* Length of base64.urlsafe_b64encode of b bytes, '=' padding included.
B64Len(b) == 4 * ((b + 2) \div 3)

\* Number of '=' characters ending the base64 encoding of b bytes.
B64Pad(b) == (3 - (b % 3)) % 3

\* str.find('=') on the base64 encoding of b bytes: the index of the first
\* '=', or -1 when there is none.
B64FindEq(b) == IF B64Pad(b) = 0 THEN -1 ELSE B64Len(b) - B64Pad(b)

\* len(s[:i]) for a str of n characters (a negative i counts from the end).
SliceTo(n, i) == IF i < 0 THEN (IF n + i < 0 THEN 0 ELSE n + i)
                 ELSE (IF i > n THEN n ELSE i)

\* The request id `None` (an assertion without InResponseTo).
NoneReqID ==
    [kind |-> "none", prefix |-> "", len |-> 0, key |-> "", ts |-> 0,
     plain |-> "", bytes |-> 0, tampered |-> FALSE]

\* ReqID.__idpok_new_requestID: 'ID' + token_urlsafe(8), 11 random characters
idpok_new_requestID ==
    [kind |-> "str", prefix |-> "ID", len |-> B64Len(8) - B64Pad(8),
     key |-> "", ts |-> 0, plain |-> "", bytes |-> 8, tampered |-> FALSE]

\* Faulty variant: a missing request id is refused
idpok_validate_requestID_str(reqid) ==
    IF reqid.kind = "str" THEN "True" ELSE "False"

\* ReqID.__idpok_validate_requestID: "IDP OK so anything goes"
idpok_validate_requestID(reqid) == "True"

\* ReqID.__noidp_new_requestID at time t: the Fernet token of self.id under
\* self.key, cut at its first '=' and prefixed with 'Id'.  A request id is
\* modelled by what decides its validation: its prefix, the number of
\* base64 characters after the prefix, the key and timestamp of the Fernet
\* token, the plaintext, the token's byte length, and whether a character
\* was altered.
noidp_new_requestID(t) ==
    LET b == FernetBytes(IdLen)
    IN  [kind |-> "str", prefix |-> "Id",
         len |-> SliceTo(B64Len(b), B64FindEq(b)),
         key |-> "self.key", ts |-> t, plain |-> "self.id",
         bytes |-> b, tampered |-> FALSE]

\* base64.urlsafe_b64decode of n data characters followed by p '=': the
\* number of bytes decoded, or -1 for binascii.Error.  Excess padding is
\* ignored; one data character more than a multiple of 4 is an error, and
\* so is too little padding.
B64Decode(n, p) ==
    CASE n % 4 = 0 -> 3 * (n \div 4)
      [] n % 4 = 1 -> -1
      [] n % 4 = 2 -> IF p >= 2 THEN 3 * (n \div 4) + 1 ELSE -1
      [] n % 4 = 3 -> IF p >= 1 THEN 3 * (n \div 4) + 2 ELSE -1

\* Faulty variant: the token expires one second early
Fernet_decrypt_early(reqid, padding, t) ==
    IF B64Decode(reqid.len, padding) # reqid.bytes \/ reqid.tampered
       \/ reqid.key # "self.key" \/ reqid.ts + ttl <= t
    THEN "InvalidToken"
    ELSE reqid.plain

\* Fernet.decrypt(token, ttl) at time t with self.key: "InvalidToken", or
\* the plaintext.  The token decodes to the bytes Fernet.encrypt produced
\* iff every character is there and unaltered; the HMAC then verifies iff
\* the key is the same; the token is expired iff timestamp + ttl < t.
Fernet_decrypt(reqid, padding, t) ==
    IF B64Decode(reqid.len, padding) # reqid.bytes \/ reqid.tampered
       \/ reqid.key # "self.key" \/ reqid.ts + ttl < t
    THEN "InvalidToken"
    ELSE reqid.plain

\* `except Exception as e: if DEBUG: raise e` then `return False`
Caught == IF DEBUG THEN "raise" ELSE "False"

\* ReqID.__noidp_validate_requestID at time t
noidp_validate_requestID(reqid, t) ==
    IF reqid.kind # "str" THEN Caught              \* AttributeError
    ELSE IF reqid.prefix # "Id" THEN Caught        \* Invalid Request ID
    ELSE LET mess == Fernet_decrypt(reqid, 4 - (reqid.len % 4), t)
         IN  IF mess = "InvalidToken" THEN Caught
             ELSE IF mess # "" /\ mess = "self.id" THEN "True"
             ELSE "False"

\* ReqID.__init__ binds new_requestID and validate_requestID by idpok
new_requestID(t) ==
    IF idp_ok THEN idpok_new_requestID ELSE noidp_new_requestID(t)

validate_requestID(reqid, t) ==
    IF idp_ok THEN idpok_validate_requestID(reqid)
    ELSE noidp_validate_requestID(reqid, t)

\* What a client can send as a request id, from the ids it was handed:
\* the id itself, the id with another prefix, truncated, with a character
\* altered, a Fernet token of the same shape made with another key, and no
\* id at all.
Malformed(tok) ==
    { [tok EXCEPT !.prefix = "ID"], [tok EXCEPT !.prefix = "xx"],
      [tok EXCEPT !.len = tok.len - 1], [tok EXCEPT !.len = tok.len - 2],
      [tok EXCEPT !.len = tok.len + 1],
      [tok EXCEPT !.tampered = TRUE],
      [tok EXCEPT !.key = "other.key"],
      [tok EXCEPT !.key = "other.key", !.plain = "other.id"] } \ {tok}

Forged ==
    {NoneReqID} \cup UNION { Malformed(noidp_new_requestID(t)) : t \in 0..MaxTime }

(***************************************************************************)
(* Python values                                                           *)
(***************************************************************************)
Str(s) == [kind |-> "str", vals |-> <<s>>]
List(q) == [kind |-> "list", vals |-> q]
None == [kind |-> "none", vals |-> <<>>]
Absent == [kind |-> "absent", vals |-> <<>>]

Range(q) == { q[i] : i \in 1..Len(q) }

\* bool(v)
Truthy(v) ==
    CASE v.kind = "str" -> v.vals[1] # ""
      [] v.kind = "list" -> v.vals # <<>>
      [] OTHER -> FALSE

\* The elements of `v if type(v) is list else [v]`.  None, as an element,
\* is written "None": no claim value of the model is that string.
AsList(v) ==
    CASE v.kind = "list" -> v.vals
      [] v.kind = "none" -> <<"None">>
      [] OTHER -> v.vals

\* A dict in insertion order is a sequence of pairs <<key, value>> with
\* distinct keys.
Keys(d) == { d[i][1] : i \in 1..Len(d) }

Get(d, k) == LET i == CHOOSE i \in 1..Len(d) : d[i][1] = k IN d[i][2]

\* d[k] = v
Put(d, k, v) ==
    IF k \in Keys(d)
    THEN [i \in 1..Len(d) |-> IF d[i][1] = k THEN <<k, v>> ELSE d[i]]
    ELSE Append(d, <<k, v>>)

\* d.update(e)
RECURSIVE Update(_, _)
Update(d, e) ==
    IF e = <<>> THEN d
    ELSE Update(Put(d, Head(e)[1], Head(e)[2]), Tail(e))

\* s.lower(), on the claim names of the model
Lower(name) ==
    CASE name = "UID" -> "uid"
      [] name = "Role" -> "role"
      [] OTHER -> name

\* [attr.lower() for attr in temp_attrs]
LowerAll(names) == [i \in 1..Len(names) |-> Lower(names[i])]

\* s.startswith(p), strings being sequences of pieces
StartsWith(s, p) == Len(p) <= Len(s) /\ SubSeq(s, 1, Len(p)) = p

(***************************************************************************)
(* SamlSP.py: the session                                                  *)
(*                                                                         *)
(* request.session is a dict.  session.username is session['username']     *)
(* (Absent when the key is missing).  session.attributes.kind is "absent"  *)
(* (no key), "other" (not a dict) or "dict"; for a dict, `claims` holds    *)
(* its keys other than '_saml', and `saml` is session['attributes']        *)
(* ['_saml']: its shape is "absent" (no '_saml'), "noexpires" (no          *)
(* 'expires' in it), "badexpires" (an 'expires' that does not compare to   *)
(* an int) or "ok", and then `expires` is the timestamp.                   *)
(***************************************************************************)
NoSaml ==
    [shape |-> "absent", expires |-> 0, name_id |-> "", request_id |-> NoneReqID,
     issuer |-> "", audience |-> ""]

NoAttributes == [kind |-> "absent", claims |-> <<>>, saml |-> NoSaml]

\* a new session, and a session after session.clear()
EmptySession == [username |-> Absent, attributes |-> NoAttributes]

\* Faulty variant: the session expires one second early
is_authenticated_strict(sess, t) ==
    /\ Truthy(sess.username)
    /\ sess.attributes.kind = "dict"
    /\ sess.attributes.saml.shape = "ok"
    /\ sess.attributes.saml.expires > t

\* SamlSP.is_authenticated at time t: every exception (KeyError, TypeError)
\* is swallowed by the bare `except`.
is_authenticated(sess, t) ==
    IF sess.username.kind = "absent" THEN FALSE             \* KeyError
    ELSE IF ~Truthy(sess.username) THEN FALSE
    ELSE IF sess.attributes.kind # "dict" THEN FALSE        \* KeyError, TypeError
    ELSE IF sess.attributes.saml.shape # "ok" THEN FALSE    \* KeyError, TypeError
    ELSE sess.attributes.saml.expires >= t

Unauthenticated == <<(<<"status", Str("unauthenticated")>>)>>

\* SamlSP.my_attrs at time t
my_attrs(sess, t) ==
    IF is_authenticated(sess, t) THEN sess.attributes.claims ELSE Unauthenticated

(***************************************************************************)
(* SamlSP.py: initiate_login                                               *)
(***************************************************************************)
\* A response: its status, what it is ("handler" for the route's own
\* callback), and for a redirect the Location: "idp" is saml_endpoint with
\* the SAMLRequest carrying request_id and the relay state next=<next>.
\* An exception that leaves the callback is status 500, body "raise".
\* `trace` lists the decorators that ran for the request, in the order they
\* ran, each with how it ended.
Response(status, body) ==
    [status |-> status, body |-> body, location |-> "", next |-> <<>>,
     request_id |-> NoneReqID, trace |-> <<>>]

\* SamlSP.initiate_login(next=url) at time t
initiate_login(url, t) ==
    [status |-> 302, body |-> "", location |-> "idp", next |-> url,
     request_id |-> new_requestID(t), trace |-> <<>>]

(***************************************************************************)
(* SamlSP.py: the Assertion Control Service, /saml/acs                     *)
(*                                                                         *)
(* A POST is [SAMLResponse, saml_resp, next]: SAMLResponse is "missing"    *)
(* (no such form field), "invalid" (minisaml's validate_response raises)   *)
(* or "valid", and saml_resp is then what validate_response returns; next  *)
(* is the RelayState's next ("" when there is none).  A login hook added   *)
(* with add_login_hook is "keep" (returns what it was given) or "raise".   *)
(***************************************************************************)
\* config['issuer'] and config['spid']
saml_issuer == "idp"
saml_audience == "sp"

\* attrs after the loop of __build_attrs_list over the first n attributes
RECURSIVE collect(_, _)
collect(attributes, n) ==
    IF n = 0 THEN <<>>
    ELSE LET attrs == collect(attributes, n - 1)
             attr == attributes[n]
         IN  IF attr.name \in Range(saml_attrs)
             THEN Put(attrs, attr.name,
                      CASE Len(attr.values) = 1 -> Str(attr.values[1])
                        [] Len(attr.values) > 1 -> List(attr.values)
                        [] OTHER -> None)
             ELSE attrs

\* Faulty variant: the identity claim is not looked at
build_attrs_list_name_id(username, saml_resp, t) ==
    LET attrs == collect(saml_resp.attributes, Len(saml_resp.attributes))
        named == IF "username" \notin Keys(attrs)
                 THEN Put(attrs, "username", username) ELSE attrs
    IN  [username |-> username,
         attributes |->
             [kind |-> "dict", claims |-> named,
              saml |-> [shape |-> "ok",
                        name_id |-> saml_resp.name_id,
                        request_id |-> saml_resp.in_response_to,
                        issuer |-> saml_resp.issuer,
                        audience |-> saml_resp.audience,
                        expires |-> t + auth_duration]]]

\* SamlSP.__build_attrs_list(username, saml_resp) at time t
build_attrs_list(username, saml_resp, t) ==
    LET attrs == collect(saml_resp.attributes, Len(saml_resp.attributes))
        uname == IF attr_uid \in Keys(attrs) THEN Get(attrs, attr_uid) ELSE username
        named == IF "username" \notin Keys(attrs)
                 THEN Put(attrs, "username", uname) ELSE attrs
    IN  [username |-> uname,
         attributes |->
             [kind |-> "dict", claims |-> named,
              saml |-> [shape |-> "ok",
                        name_id |-> saml_resp.name_id,
                        request_id |-> saml_resp.in_response_to,
                        issuer |-> saml_resp.issuer,
                        audience |-> saml_resp.audience,
                        expires |-> t + auth_duration]]]

\* The loop over self.login_hooks from hook i on, (username, attrs) being
\* what the hooks before it made: how many hooks ran, whether the last of
\* them raised, and the (username, attrs) they end with.
RECURSIVE run_hooks(_, _, _, _)
run_hooks(i, sofar, saml_resp, t) ==
    IF i > Len(login_hooks) THEN [raised |-> FALSE, ran |-> i - 1, result |-> sofar]
    ELSE CASE login_hooks[i] = "__build_attrs_list" ->
                run_hooks(i + 1, build_attrs_list(sofar.username, saml_resp, t),
                          saml_resp, t)
           [] login_hooks[i] = "keep" -> run_hooks(i + 1, sofar, saml_resp, t)
           [] OTHER -> [raised |-> TRUE, ran |-> i, result |-> sofar]

BadRequestError(body) == Response(400, body)
AppError(body) == Response(400, body)
ConflictError(body) == Response(400, body)
ForbiddenError(body) == Response(403, body)

Step(name, ok) == [step |-> name, ok |-> ok]

\* session[key] = value on the session store `store`: "ok", or the key
\* whose assignment raises
SetItemRaises(store, key) == store = key

\* session.clear()
clear(sess) == EmptySession

\* The callback with one fault put in: "reauth" (an authenticated session
\* is not turned away), "clear_on_invalid" (a response that does not
\* validate clears the session), "noreqid" (the request id is not
\* validated), "noissuer" (the issuer is not compared), "noclear" (a failed
\* hook or session write leaves the session as it is by then).
finish_saml_login_work_with(fault, sess, form, store, t) ==
    LET authed == fault # "reauth" /\ is_authenticated(sess, t)
        s1 == <<Step("is_authenticated", ~authed)>>
        s3 == s1 \o <<Step("validate_response", form.SAMLResponse = "valid")>>
        saml_resp == form.saml_resp
        v == IF fault = "noreqid" THEN "True"
             ELSE validate_requestID(saml_resp.in_response_to, t)
        s4 == s3 \o <<Step("validate_requestID", v = "True")>>
        s5 == IF fault = "noissuer" THEN s4
              ELSE s4 \o <<Step("issuer", saml_resp.issuer = saml_issuer)>>
        h == run_hooks(1, [username |-> Str(saml_resp.name_id),
                           attributes |-> NoAttributes], saml_resp, t)
        s6 == s5 \o [i \in 1..h.ran |-> Step("login_hook", ~(h.raised /\ i = h.ran))]
        w1 == [sess EXCEPT !.attributes = h.result.attributes]
        w2 == [w1 EXCEPT !.username = h.result.username]
        url == IF form.next # "" THEN form.next ELSE "/"
    IN  IF authed
        THEN [session |-> sess, steps |-> s1,
              response |-> AppError("ACS invoked for authenticated user")]
        ELSE IF form.SAMLResponse # "valid"
        THEN [session |-> IF fault = "clear_on_invalid" THEN clear(sess) ELSE sess,
              steps |-> s3,
              response |-> BadRequestError("response_validation failed")]
        ELSE IF v = "raise"
        THEN [session |-> sess, steps |-> s4, response |-> Response(500, "raise")]
        ELSE IF v = "False"
        THEN [session |-> sess, steps |-> s4,
              response |-> BadRequestError("Invalid Request")]
        ELSE IF fault # "noissuer" /\ saml_resp.issuer # saml_issuer
        THEN [session |-> sess, steps |-> s5,
              response |-> ConflictError("Issuer mismatch")]
        ELSE IF h.raised
        THEN [session |-> IF fault = "noclear" THEN sess ELSE clear(sess),
              steps |-> s6,
              response |-> ForbiddenError("login_hooks failed")]
        ELSE IF SetItemRaises(store, "attributes")
        THEN [session |-> IF fault = "noclear" THEN sess ELSE clear(sess),
              steps |-> s6 \o <<Step("session", FALSE)>>,
              response |-> ForbiddenError("login_hooks failed")]
        ELSE IF SetItemRaises(store, "username")
        THEN [session |-> IF fault = "noclear" THEN w1 ELSE clear(w1),
              steps |-> s6 \o <<Step("session", FALSE)>>,
              response |-> ForbiddenError("login_hooks failed")]
        ELSE [session |-> w2,
              steps |-> s6 \o <<Step("session", TRUE)>>,
              response |-> [Response(302, "") EXCEPT !.location = url]]

\* Faulty variant: the issuer is not compared
finish_saml_login_work_noissuer(sess, form, store, t) ==
    finish_saml_login_work_with("noissuer", sess, form, store, t)

\* Faulty variant: an authenticated session is not turned away
finish_saml_login_work_reauth(sess, form, store, t) ==
    finish_saml_login_work_with("reauth", sess, form, store, t)

\* Faulty variant: a response that does not validate clears the session
finish_saml_login_work_clear_on_invalid(sess, form, store, t) ==
    finish_saml_login_work_with("clear_on_invalid", sess, form, store, t)

\* Faulty variant: the request id is not validated
finish_saml_login_work_noreqid(sess, form, store, t) ==
    finish_saml_login_work_with("noreqid", sess, form, store, t)

\* Faulty variant: a failed hook or session write does not clear the session
finish_saml_login_work_noclear(sess, form, store, t) ==
    finish_saml_login_work_with("noclear", sess, form, store, t)

\* SamlSP.finish_saml_login_work(session) for the POST `form` at time t, on
\* a session store `store`: the session it leaves, its response, and the
\* steps it went through.
finish_saml_login_work(sess, form, store, t) ==
    LET s1 == <<Step("is_authenticated", ~is_authenticated(sess, t))>>
        s3 == s1 \o <<Step("validate_response", form.SAMLResponse = "valid")>>
        saml_resp == form.saml_resp
        v == validate_requestID(saml_resp.in_response_to, t)
        s4 == s3 \o <<Step("validate_requestID", v = "True")>>
        s5 == s4 \o <<Step("issuer", saml_resp.issuer = saml_issuer)>>
        h == run_hooks(1, [username |-> Str(saml_resp.name_id),
                           attributes |-> NoAttributes], saml_resp, t)
        s6 == s5 \o [i \in 1..h.ran |-> Step("login_hook", ~(h.raised /\ i = h.ran))]
        w1 == [sess EXCEPT !.attributes = h.result.attributes]
        w2 == [w1 EXCEPT !.username = h.result.username]
        url == IF form.next # "" THEN form.next ELSE "/"
    IN  IF is_authenticated(sess, t)
        THEN [session |-> sess, steps |-> s1,
              response |-> AppError("ACS invoked for authenticated user")]
        ELSE IF form.SAMLResponse # "valid"
        THEN [session |-> sess, steps |-> s3,
              response |-> BadRequestError("response_validation failed")]
        ELSE IF v = "raise"
        THEN [session |-> sess, steps |-> s4, response |-> Response(500, "raise")]
        ELSE IF v = "False"
        THEN [session |-> sess, steps |-> s4,
              response |-> BadRequestError("Invalid Request")]
        ELSE IF saml_resp.issuer # saml_issuer
        THEN [session |-> sess, steps |-> s5,
              response |-> ConflictError("Issuer mismatch")]
        ELSE IF h.raised
        THEN [session |-> clear(sess), steps |-> s6,
              response |-> ForbiddenError("login_hooks failed")]
        ELSE IF SetItemRaises(store, "attributes")
        THEN [session |-> clear(sess), steps |-> s6 \o <<Step("session", FALSE)>>,
              response |-> ForbiddenError("login_hooks failed")]
        ELSE IF SetItemRaises(store, "username")
        THEN [session |-> clear(w1), steps |-> s6 \o <<Step("session", FALSE)>>,
              response |-> ForbiddenError("login_hooks failed")]
        ELSE [session |-> w2,
              steps |-> s6 \o <<Step("session", TRUE)>>,
              response |-> [Response(302, "") EXCEPT !.location = url]]

(***************************************************************************)
(* SamlAuth.py                                                             *)
(*                                                                         *)
(* A route is [rule, config]; config.authn is the route's authn keyword    *)
(* ("absent", "True", "False" or "None"), config.authz its authz keyword:  *)
(* [kind |-> "absent"] or a dict of requirements.  A callback is the       *)
(* sequence of the decorators wrapped around the route's own callback,     *)
(* the innermost first: <<>> is the route's callback itself.               *)
(***************************************************************************)
\* test_attrs(challenge, standard)
test_attrs(challenge, standard) ==
    LET stand_list == AsList(standard)
        chal_list == AsList(challenge)
    IN  \E i \in 1..Len(chal_list) :
            \E j \in 1..Len(stand_list) : chal_list[i] = stand_list[j]

\* session['attributes'][attr] raises KeyError or TypeError
LookupRaises(sess, attr) ==
    \/ sess.attributes.kind # "dict"
    \/ attr \notin Keys(sess.attributes.claims)

\* The loop of authz_required and authz_required_path over req_attrs:
\* "401" at the first requirement not met, "pass" after the last one,
\* "raise" when reading the session raises.
RECURSIVE check_attrs(_, _, _)
check_attrs(req_attrs, sess, t) ==
    IF req_attrs = <<>> THEN "pass"
    ELSE LET attr == Head(req_attrs)[1]
             value == Head(req_attrs)[2]
         IN  IF attr \notin Keys(my_attrs(sess, t)) THEN "401"
             ELSE IF LookupRaises(sess, attr) THEN "raise"
             ELSE IF ~test_attrs(Get(sess.attributes.claims, attr), value)
                  THEN "401"
             ELSE check_attrs(Tail(req_attrs), sess, t)

\* authz_required, the decorator of __apply_require_attrs
authz_required(req_attrs, sess, t) == check_attrs(req_attrs, sess, t)

\* authz_required_path, the decorator of __apply_prefix_attrs
authz_required_path(req_attrs, sess, t) == check_attrs(req_attrs, sess, t)

\* Faulty variant: the explicit authn=False is not looked at
apply_require_authn_noskip(f, route) ==
    IF \/ authn_all_routes
       \/ route.config.authn = "True"
       \/ (route.config.authz.kind = "dict" /\ route.config.authz.map # <<>>)
    THEN Append(f, [check |-> "auth_required", req_attrs |-> <<>>])
    ELSE f

\* SamlAuth.__apply_require_authn(f, route)
apply_require_authn(f, route) ==
    IF route.config.authn = "False" THEN f
    ELSE IF \/ authn_all_routes
            \/ route.config.authn = "True"
            \/ (route.config.authz.kind = "dict" /\ route.config.authz.map # <<>>)
         THEN Append(f, [check |-> "auth_required", req_attrs |-> <<>>])
         ELSE f

\* SamlAuth.__apply_require_attrs(f, route)
apply_require_attrs(f, route) ==
    IF route.config.authz.kind = "dict" /\ route.config.authz.map # <<>>
    THEN Append(f, [check |-> "authz_required",
                    req_attrs |-> route.config.authz.map])
    ELSE f

\* Faulty variant: an earlier prefix wins over a later one
RECURSIVE prefix_req_attrs_first(_, _)
prefix_req_attrs_first(rule, n) ==
    IF n = 0 THEN <<>>
    ELSE LET sofar == prefix_req_attrs_first(rule, n - 1)
         IN  IF StartsWith(rule, authz_by_prefix[n][1])
             THEN Update(authz_by_prefix[n][2], sofar)
             ELSE sofar

\* The req_attrs of __apply_prefix_attrs: the requirements of the first n
\* prefixes of authz_by_prefix that route.rule starts with, merged by
\* dict.update in the dict's order.
RECURSIVE prefix_req_attrs(_, _)
prefix_req_attrs(rule, n) ==
    IF n = 0 THEN <<>>
    ELSE LET sofar == prefix_req_attrs(rule, n - 1)
         IN  IF StartsWith(rule, authz_by_prefix[n][1])
             THEN Update(sofar, authz_by_prefix[n][2])
             ELSE sofar

\* SamlAuth.__apply_prefix_attrs(f, route)
apply_prefix_attrs(f, route) ==
    LET req_attrs == IF authn_all_routes
                     THEN prefix_req_attrs(route.rule, Len(authz_by_prefix))
                     ELSE <<>>
    IN  IF req_attrs = <<>> THEN f
        ELSE Append(f, [check |-> "authz_required_path", req_attrs |-> req_attrs])

\* Faulty variant: the authentication check is applied first, so it runs last
apply_checks_authn_first ==
    <<"__apply_require_authn", "__apply_require_attrs", "__apply_prefix_attrs">>

\* SamlAuth.apply_checks
apply_checks ==
    <<"__apply_require_attrs", "__apply_prefix_attrs", "__apply_require_authn">>

apply_check(name, f, route) ==
    CASE name = "__apply_require_attrs" -> apply_require_attrs(f, route)
      [] name = "__apply_prefix_attrs" -> apply_prefix_attrs(f, route)
      [] name = "__apply_require_authn" -> apply_require_authn(f, route)

\* SamlAuth.apply(f, route): the first n apply_checks applied in turn
RECURSIVE apply_first(_, _, _)
apply_first(n, f, route) ==
    IF n = 0 THEN f
    ELSE apply_check(apply_checks[n], apply_first(n - 1, f, route), route)

\* Faulty variant: only the last of apply_checks is applied
apply_last_only(f, route) == apply_check(apply_checks[Len(apply_checks)], f, route)

apply(f, route) == apply_first(Len(apply_checks), f, route)

UnauthorizedError(body) == Response(401, body)

\* the response r, with decorator `check` ending in `result` run before it
Ran(check, result, r) ==
    [r EXCEPT !.trace = <<[check |-> check, result |-> result]>> \o @]

\* Calling a decorated callback f for a request to url at time t: the
\* outermost decorator (the last applied) runs first.
RECURSIVE Call(_, _, _, _)
Call(f, url, sess, t) ==
    IF f = <<>> THEN Response(200, "handler")
    ELSE LET d == f[Len(f)]
             inner == SubSeq(f, 1, Len(f) - 1)
         IN  IF d.check = "auth_required"
             THEN IF is_authenticated(sess, t)
                  THEN Ran(d.check, "pass", Call(inner, url, sess, t))
                  ELSE Ran(d.check, "login", initiate_login(url, t))
             ELSE LET r == IF d.check = "authz_required"
                           THEN authz_required(d.req_attrs, sess, t)
                           ELSE authz_required_path(d.req_attrs, sess, t)
                  IN  CASE r = "pass" -> Ran(d.check, r, Call(inner, url, sess, t))
                        [] r = "401" ->
                            Ran(d.check, r, UnauthorizedError("Permission not granted"))
                        [] OTHER -> Ran(d.check, r, Response(500, "raise"))

(***************************************************************************)
(* The authorization pipeline on its own: a configuration, a session in    *)
(* any shape the session store can hold, the clock, and requests.          *)
(***************************************************************************)
\* route.rule, in pieces: /admin/dashboard, /administrator, /public
Rules ==
    { <<"/", "admin", "/", "dashboard">>, <<"/", "admin", "istrator">>,
      <<"/", "public">> }

RoleAdmin == <<(<<"role", Str("admin")>>)>>
RoleUser == <<(<<"role", Str("user")>>)>>
DeptIt == <<(<<"dept", Str("it")>>)>>

\* the items authz_by_prefix is made of: prefixes /admin and /
PrefixItems ==
    { <<(<<"/", "admin">>), RoleAdmin>>, <<(<<"/", "admin">>), DeptIt>>,
      <<(<<"/">>), RoleUser>> }

PrefixTables ==
    { q \in UNION { [1..n -> PrefixItems] : n \in 0..MaxPrefixes } :
        \A i, j \in 1..Len(q) : i # j => q[i][1] # q[j][1] }

\* the authz keyword of a route
Authz ==
    { [kind |-> "absent", map |-> <<>>],
      [kind |-> "dict", map |-> <<>>],
      [kind |-> "dict", map |-> RoleAdmin],
      [kind |-> "dict", map |-> <<(<<"role", List(<<"admin", "root">>)>>)>>],
      [kind |-> "dict", map |-> <<(<<"status", Str("active")>>)>>],
      [kind |-> "dict", map |-> <<(<<"dept", Str("it")>>), <<"role", Str("admin")>>>>] }

Routes ==
    [rule : Rules,
     config : [authn : {"absent", "True", "False", "None"}, authz : Authz]]

\* session['attributes'] without its '_saml'
ClaimDicts ==
    { <<(<<"role", List(<<"user">>)>>), <<"username", Str("alice")>>>>,
      <<(<<"role", List(<<"admin", "user">>)>>), <<"username", Str("alice")>>>>,
      <<(<<"role", Str("admin")>>), <<"dept", Str("it")>>, <<"username", Str("alice")>>>>,
      <<(<<"status", Str("active")>>), <<"username", Str("alice")>>>> }

Dict(claims, shape, expires) ==
    [kind |-> "dict", claims |-> claims,
     saml |-> [NoSaml EXCEPT !.shape = shape, !.expires = expires]]

\* sessions as SamlSP writes them, with any expiry
WrittenSessions ==
    { [username |-> Str("alice"), attributes |-> Dict(c, "ok", e)] :
        c \in ClaimDicts, e \in 0..MaxTime }

\* sessions with missing fields and wrong types
OddSessions ==
    LET c == CHOOSE c \in ClaimDicts : "dept" \in Keys(c)
    IN  { EmptySession,
          [username |-> Str("alice"), attributes |-> NoAttributes],
          [username |-> Str("alice"),
           attributes |-> [kind |-> "other", claims |-> <<>>, saml |-> NoSaml]],
          [username |-> Str("alice"), attributes |-> Dict(c, "absent", 0)],
          [username |-> Str("alice"), attributes |-> Dict(c, "noexpires", 0)],
          [username |-> Str("alice"), attributes |-> Dict(c, "badexpires", 0)],
          [username |-> Absent, attributes |-> Dict(c, "ok", MaxTime)],
          [username |-> None, attributes |-> Dict(c, "ok", MaxTime)],
          [username |-> Str(""), attributes |-> Dict(c, "ok", MaxTime)],
          [username |-> List(<<"alice", "al">>), attributes |-> Dict(c, "ok", MaxTime)] }

(***************************************************************************)
(* Initial values, and the parts of the state a specification leaves alone *)
(***************************************************************************)
NoCall == [called |-> FALSE, reqid |-> NoneReqID, at |-> 0, result |-> "False"]

NoCheck == [called |-> FALSE, at |-> 0, result |-> FALSE]

NoAssertion ==
    [name_id |-> "", issuer |-> "", audience |-> "", in_response_to |-> NoneReqID,
     attributes |-> <<>>]

NoAcs ==
    [called |-> FALSE, at |-> 0,
     form |-> [SAMLResponse |-> "missing", saml_resp |-> NoAssertion, next |-> ""],
     store |-> "ok",
     response |-> Response(0, ""), steps |-> <<>>]

NoRequest == [served |-> FALSE, at |-> 0, response |-> Response(0, "")]

IdleReqID ==
    /\ DEBUG = FALSE /\ idp_ok = FALSE /\ ttl = MaxTtl
    /\ issued = {} /\ vres = NoCall

\* no call of __build_attrs_list yet
NoExtract ==
    [called |-> FALSE, at |-> 0, saml_resp |-> NoAssertion,
     result |-> [username |-> Absent, attributes |-> NoAttributes]]

\* no app.install yet
NoInstall == [called |-> FALSE, plugin |-> "", outcome |-> ""]

IdleSaml ==
    /\ assertions = <<>> /\ saml_attrs = <<>>
    /\ attr_uid = "name_id" /\ auth_duration = MaxDuration
    /\ login_hooks = <<"__build_attrs_list">>
    /\ authres = NoCheck /\ acs = NoAcs /\ extract = NoExtract

\* no other browser
IdleRace == browsers = <<>>

\* a new Bottle application
IdleApp == app_plugins = <<>> /\ install = NoInstall

IdleAuth ==
    /\ authn_all_routes = TRUE /\ authz_by_prefix = <<>>
    /\ app_route = [rule |-> <<"/">>,
                    config |-> [authn |-> "absent",
                                authz |-> [kind |-> "absent", map |-> <<>>]]]
    /\ req = NoRequest

\* time passes
Tick ==
    /\ now < MaxTime
    /\ now' = now + 1
    /\ UNCHANGED <<reqid_config, issued, vres, session, authres, saml_config,
                   acs, auth_config, req, extract, app_state, browsers>>

(***************************************************************************)
(* SpecReqID: the request-id lifecycle on its own: the clock,              *)
(* new_requestID and validate_requestID.                                   *)
(***************************************************************************)
InitReqID ==
    /\ now = 0
    /\ IdleRace
    /\ DEBUG \in BOOLEAN
    /\ idp_ok \in BOOLEAN
    /\ ttl \in 0..MaxTtl
    /\ issued = {}
    /\ vres = NoCall
    /\ session = EmptySession
    /\ IdleSaml
    /\ IdleAuth
    /\ IdleApp

\* reqid.new_requestID()
NewRequestID ==
    /\ issued' = issued \cup {new_requestID(now)}
    /\ UNCHANGED <<now, reqid_config, vres, session, authres, saml_config, acs,
                   auth_config, req, extract, app_state, browsers>>

\* reqid.validate_requestID(reqid) with an id handed out earlier
ValidateIssued ==
    \E reqid \in issued :
        /\ vres' = [called |-> TRUE, reqid |-> reqid, at |-> now,
                    result |-> validate_requestID(reqid, now)]
        /\ UNCHANGED <<now, reqid_config, issued, session, authres, saml_config,
                       acs, auth_config, req, extract, app_state, browsers>>

\* reqid.validate_requestID(reqid) with anything else
ValidateForged ==
    \E reqid \in Forged :
        /\ vres' = [called |-> TRUE, reqid |-> reqid, at |-> now,
                    result |-> validate_requestID(reqid, now)]
        /\ UNCHANGED <<now, reqid_config, issued, session, authres, saml_config,
                       acs, auth_config, req, extract, app_state, browsers>>

NextReqID == Tick \/ NewRequestID \/ ValidateIssued \/ ValidateForged

SpecReqID == InitReqID /\ [][NextReqID]_vars

(***************************************************************************)
(* SpecSession: is_authenticated over a session in any shape the session   *)
(* store can hold, as the clock advances.                                  *)
(***************************************************************************)
InitSession ==
    /\ now = 0
    /\ IdleRace
    /\ session \in WrittenSessions \cup OddSessions
    /\ IdleReqID
    /\ IdleSaml
    /\ IdleAuth
    /\ IdleApp

\* saml.is_authenticated
IsAuthenticated ==
    /\ authres' = [called |-> TRUE, at |-> now,
                   result |-> is_authenticated(session, now)]
    /\ UNCHANGED <<now, reqid_config, issued, vres, session, saml_config, acs,
                   auth_config, req, extract, app_state, browsers>>

NextSession == Tick \/ IsAuthenticated

SpecSession == InitSession /\ [][NextSession]_vars

(***************************************************************************)
(* SpecAuth: the authorization pipeline on its own: a configuration, a     *)
(* route, a session in any shape, the clock, and requests to the route.    *)
(***************************************************************************)
InitAuth ==
    /\ now = 0
    /\ IdleRace
    /\ session \in WrittenSessions \cup OddSessions
    /\ authn_all_routes \in BOOLEAN
    /\ authz_by_prefix \in PrefixTables
    /\ app_route \in Routes
    /\ req = NoRequest
    /\ IdleReqID
    /\ IdleSaml
    /\ IdleApp

\* A request to the route: Bottle calls the callback that SamlAuth.apply
\* made of the route's own.
Request ==
    /\ req' = [served |-> TRUE, at |-> now,
               response |-> Call(apply(<<>>, app_route), app_route.rule, session, now)]
    /\ UNCHANGED <<now, reqid_config, issued, vres, session, authres,
                   saml_config, acs, auth_config, extract, app_state, browsers>>

NextAuth == Tick \/ Request

SpecAuth == InitAuth /\ [][NextAuth]_vars

(***************************************************************************)
(* Spec: the login flow.  Logins are initiated, hooks are added, the       *)
(* browser posts to /saml/acs what the IdP (or anyone) gave it.            *)
(***************************************************************************)
\* the claims an assertion carries
AttributeLists ==
    { <<[name |-> "uid", values |-> <<"bob">>],
        [name |-> "role", values |-> <<"admin", "user">>],
        [name |-> "mail", values |-> <<"bob@example.org">>]>>,
      <<[name |-> "uid", values |-> <<>>]>>,
      <<[name |-> "uid", values |-> <<"bob", "rob">>]>> }

\* what can come as InResponseTo: an id handed out, or none
ResponseTo == issued \cup {NoneReqID}

\* the assertion with claims of every kind
FullAttributes == CHOOSE l \in AttributeLists : Len(l) > 1

\* The forms posted.  The claims vary in the responses that get to the
\* extraction (from the configured issuer); the relay state's next and the
\* issuer vary with one list of claims.
Forms ==
    [SAMLResponse : {"missing", "invalid"}, saml_resp : {NoAssertion},
     next : {""}]
    \cup
    { f \in [SAMLResponse : {"valid"},
             saml_resp : [name_id : {"nid"}, issuer : {saml_issuer, "other"},
                          audience : {saml_audience}, in_response_to : ResponseTo,
                          attributes : AttributeLists],
             next : {"", "/next"}] :
        \/ f.saml_resp.attributes = FullAttributes
        \/ f.saml_resp.issuer = saml_issuer /\ f.next = "" }

Init ==
    /\ now = 0
    /\ IdleRace
    /\ DEBUG \in BOOLEAN
    /\ idp_ok \in BOOLEAN
    /\ ttl \in 0..MaxTtl
    /\ issued = {}
    /\ vres = NoCall
    /\ session = EmptySession
    /\ authres = NoCheck
    /\ assertions = <<"uid", "role">>
    /\ saml_attrs = <<"uid", "role">>
    /\ attr_uid = "uid"
    /\ auth_duration \in 0..MaxDuration
    /\ login_hooks = <<"__build_attrs_list">>
    /\ acs = NoAcs
    /\ extract = NoExtract
    /\ IdleAuth
    /\ IdleApp

\* saml.initiate_login(next=url): the browser is sent to the IdP with a
\* new request id
InitiateLogin ==
    /\ Cardinality(issued) < MaxIssued
    /\ issued' = issued \cup {initiate_login(<<"/">>, now).request_id}
    /\ UNCHANGED <<now, reqid_config, vres, session, authres, saml_config, acs,
                   auth_config, req, extract, app_state, browsers>>

\* saml.add_login_hook(f)
AddLoginHook ==
    \E f \in {"keep", "raise"} :
        /\ Len(login_hooks) <= MaxHooks
        /\ login_hooks' = Append(login_hooks, f)
        /\ UNCHANGED <<now, reqid_config, issued, vres, session, authres,
                       assertions, saml_attrs, attr_uid, auth_duration, acs,
                       auth_config, req, extract, app_state, browsers>>

\* the session store takes every assignment, or raises on one of the two
Stores == {"ok", "attributes", "username"}

\* A POST and the session store it is served on.  A store that raises is
\* paired with the forms that can get as far as the assignments (with
\* another form the callback returns before them, as on a store that
\* does not raise).
Posts ==
    (Forms \X {"ok"})
    \cup ({ f \in Forms : /\ f.SAMLResponse = "valid"
                          /\ f.saml_resp.issuer = saml_issuer
                          /\ f.saml_resp.attributes = FullAttributes
                          /\ f.next = "" }
          \X (Stores \ {"ok"}))

\* POST /saml/acs: SamlSP.finish_saml_login
FinishSamlLogin ==
    \E post \in Posts :
        LET form == post[1]
            store == post[2]
            r == finish_saml_login_work(session, form, store, now)
        IN  /\ session' = r.session
            /\ acs' = [called |-> TRUE, at |-> now, form |-> form,
                       store |-> IF Step("session", FALSE) \in Range(r.steps)
                                 THEN store ELSE "ok",
                       response |-> r.response, steps |-> r.steps]
            /\ UNCHANGED <<now, reqid_config, issued, vres, authres, saml_config,
                           auth_config, req, extract, app_state, browsers>>

Next == Tick \/ InitiateLogin \/ AddLoginHook \/ FinishSamlLogin

Spec == Init /\ [][Next]_vars

(***************************************************************************)
(* SpecExtract: __build_attrs_list on its own: a configuration of          *)
(* 'assertions', 'user_attr' and 'auth_duration', and assertions with      *)
(* claims of any name and any number of values.                            *)
(***************************************************************************)
\* config['assertions']
AssertionConfigs ==
    { <<>>, <<"uid", "role">>, <<"UID", "Role">>, <<"role", "username">>, <<"mail">> }

\* config['user_attr']; 'name_id' is the default
UserAttrs == {"name_id", "uid", "UID", "username"}

\* saml_resp.attributes
ExtractAttributeLists ==
    AttributeLists
    \cup
    { <<>>,
      <<[name |-> "UID", values |-> <<"bob">>],
        [name |-> "Role", values |-> <<"admin">>]>>,
      <<[name |-> "username", values |-> <<"eve">>],
        [name |-> "role", values |-> <<"user">>]>>,
      <<[name |-> "uid", values |-> <<"bob", "rob">>]>>,
      <<[name |-> "role", values |-> <<"user">>],
        [name |-> "role", values |-> <<"admin">>]>> }

\* what validate_response can return
Assertions ==
    [name_id : {"nid"}, issuer : {saml_issuer}, audience : {saml_audience},
     in_response_to : {NoneReqID}, attributes : ExtractAttributeLists]

InitExtract ==
    /\ now = 0
    /\ IdleRace
    /\ assertions \in AssertionConfigs
    /\ saml_attrs = LowerAll(assertions)
    /\ attr_uid \in UserAttrs
    /\ auth_duration \in 0..MaxDuration
    /\ login_hooks = <<"__build_attrs_list">>
    /\ authres = NoCheck /\ acs = NoAcs /\ extract = NoExtract
    /\ session = EmptySession
    /\ IdleReqID
    /\ IdleAuth
    /\ IdleApp

\* the first login hook, called as finish_saml_login_work calls it
Extract ==
    \E saml_resp \in Assertions :
        /\ extract' = [called |-> TRUE, at |-> now, saml_resp |-> saml_resp,
                       result |-> build_attrs_list(Str(saml_resp.name_id),
                                                   saml_resp, now)]
        /\ UNCHANGED <<now, reqid_config, issued, vres, session, authres,
                       saml_config, acs, auth_config, req, app_state, browsers>>

NextExtract == Tick \/ Extract

SpecExtract == InitExtract /\ [][NextExtract]_vars

(***************************************************************************)
(* SpecInstall: plugins are installed into and removed from one Bottle     *)
(* application.  A plugin is an object: "auth1" and "auth2" are two        *)
(* SamlAuth instances, the others are plugins of other classes.            *)
(* app.install(plugin) calls plugin.setup(app) and then appends the plugin *)
(* to app.plugins; app.uninstall(plugin) removes it.                       *)
(***************************************************************************)
SamlAuthInstances == {"auth1", "auth2"}

Installable == SamlAuthInstances \cup {"other"}

\* isinstance(plugin, SamlAuth)
IsSamlAuth(plugin) == plugin \in SamlAuthInstances

\* Faulty variant: a second instance is let in
setup_any(self, plugins, i) == "ok"

\* SamlAuth.setup(app), its loop from app.plugins[i] on: "ok" when it
\* returns, "PluginError" when it raises
RECURSIVE setup(_, _, _)
setup(self, plugins, i) ==
    IF i > Len(plugins) THEN "ok"
    ELSE IF plugins[i] = self THEN "ok"
    ELSE IF IsSamlAuth(plugins[i]) THEN "PluginError"
    ELSE setup(self, plugins, i + 1)

\* [p for p in plugins if p is not plugin]
RECURSIVE Without(_, _)
Without(plugins, plugin) ==
    IF plugins = <<>> THEN <<>>
    ELSE IF Head(plugins) = plugin THEN Without(Tail(plugins), plugin)
    ELSE <<Head(plugins)>> \o Without(Tail(plugins), plugin)

\* a new Bottle application has its JSON and template plugins
InitInstall ==
    /\ now = 0
    /\ IdleRace
    /\ app_plugins = <<"JSONPlugin", "TemplatePlugin">>
    /\ install = NoInstall
    /\ session = EmptySession
    /\ IdleReqID
    /\ IdleSaml
    /\ IdleAuth

\* app.install(plugin), also as SamlAuth(saml, app=app) does it
Install ==
    \E plugin \in Installable :
        LET outcome == IF IsSamlAuth(plugin) THEN setup(plugin, app_plugins, 1)
                       ELSE "ok"
        IN  /\ Len(app_plugins) < MaxPlugins
            /\ app_plugins' = IF outcome = "ok" THEN Append(app_plugins, plugin)
                              ELSE app_plugins
            /\ install' = [called |-> TRUE, plugin |-> plugin, outcome |-> outcome]
            /\ UNCHANGED <<now, reqid_config, issued, vres, session, authres,
                           saml_config, acs, extract, auth_config, req,
                           browsers>>

\* app.uninstall(plugin)
Uninstall ==
    \E plugin \in Range(app_plugins) :
        /\ app_plugins' = Without(app_plugins, plugin)
        /\ UNCHANGED <<now, reqid_config, issued, vres, session, authres,
                       saml_config, acs, extract, auth_config, req, install,
                       browsers>>

NextInstall == Install \/ Uninstall

SpecInstall == InitInstall /\ [][NextInstall]_vars

(***************************************************************************)
(* SpecRace: several browsers, each with its own session, are handed the   *)
(* same request ids and post them to /saml/acs in any order, as the clock  *)
(* advances.  ReqID keeps no record of the ids it made or validated.       *)
(***************************************************************************)
Browsers == 1..MaxBrowsers

NoFinal ==
    [called |-> FALSE, at |-> 0, reqid |-> NoneReqID, anonymous |-> TRUE,
     response |-> Response(0, "")]

\* the IdP's response to the request that carried reqid
RaceForm(reqid) ==
    [SAMLResponse |-> "valid", next |-> "",
     saml_resp |-> [name_id |-> "nid", issuer |-> saml_issuer,
                    audience |-> saml_audience, in_response_to |-> reqid,
                    attributes |-> FullAttributes]]

InitRace ==
    /\ now = 0
    /\ DEBUG \in BOOLEAN
    /\ idp_ok \in BOOLEAN
    /\ ttl \in 0..MaxTtl
    /\ issued = {}
    /\ vres = NoCall
    /\ session = EmptySession
    /\ authres = NoCheck
    /\ assertions = <<"uid", "role">>
    /\ saml_attrs = <<"uid", "role">>
    /\ attr_uid = "uid"
    /\ auth_duration \in 0..MaxDuration
    /\ login_hooks = <<"__build_attrs_list">>
    /\ acs = NoAcs
    /\ extract = NoExtract
    /\ IdleAuth
    /\ IdleApp
    /\ browsers = [b \in Browsers |-> [session |-> EmptySession, final |-> NoFinal]]

\* browser b posts the response to reqid: SamlSP.finish_saml_login on b's
\* session
Finalize ==
    \E b \in Browsers, reqid \in issued :
        LET sess == browsers[b].session
            r == finish_saml_login_work(sess, RaceForm(reqid), "ok", now)
        IN  /\ browsers' =
                  [browsers EXCEPT ![b] =
                      [session |-> r.session,
                       final |-> [called |-> TRUE, at |-> now, reqid |-> reqid,
                                  anonymous |-> ~is_authenticated(sess, now),
                                  response |-> r.response]]]
            /\ UNCHANGED <<now, reqid_config, issued, vres, session, authres,
                           saml_config, acs, extract, auth_config, req,
                           app_state>>

NextRace == Tick \/ InitiateLogin \/ Finalize

SpecRace == InitRace /\ [][NextRace]_vars

(***************************************************************************)
(* Properties of the authorization pipeline (under SpecAuth)               *)
(***************************************************************************)
\* the decorators that ran for the last request
Trace == req.response.trace

Ended(check, result) ==
    \E i \in 1..Len(Trace) : Trace[i].check = check /\ Trace[i].result = result

\* the route's own requirement map (empty when it declares none)
RouteReq ==
    IF app_route.config.authz.kind = "dict" THEN app_route.config.authz.map ELSE <<>>

\* the values of v, a scalar being a list of one
Values(v) == { AsList(v)[i] : i \in 1..Len(AsList(v)) }

\* the requirement map r is satisfied by the attribute set attrs
Satisfied(r, attrs) ==
    \A i \in 1..Len(r) :
        /\ r[i][1] \in Keys(attrs)
        /\ Values(Get(attrs, r[i][1])) \cap Values(r[i][2]) # {}

\* the authentication requirement is to be enforced on the route
ShouldEnforce ==
    /\ app_route.config.authn # "False"
    /\ \/ authn_all_routes
       \/ app_route.config.authn = "True"
       \/ RouteReq # <<>>

\* the indexes of the prefixes of authz_by_prefix the route's path starts with
Matching ==
    { i \in 1..Len(authz_by_prefix) : StartsWith(app_route.rule, authz_by_prefix[i][1]) }

\* the claims those prefixes require
PrefixClaims == UNION { Keys(authz_by_prefix[i][2]) : i \in Matching }

\* the requirement for claim k of the last matching prefix that has one
LastFor(k) ==
    LET having == { i \in Matching : k \in Keys(authz_by_prefix[i][2]) }
        last == CHOOSE i \in having : \A j \in having : j <= i
    IN  Get(authz_by_prefix[last][2], k)

\* the authz_required_path decorators applied to the route
PathLayers ==
    LET f == apply(<<>>, app_route)
    IN  { f[i].req_attrs : i \in { j \in 1..Len(f) : f[j].check = "authz_required_path" } }

\* C6: an attribute requirement check passes iff, for every required claim,
\* the session's attributes (my_attrs: the attributes of an authenticated
\* session, the unauthenticated marker otherwise) contain the claim and one
\* of their values for it is among the acceptable values; it fails (401)
\* otherwise.
C6_CheckIffSatisfied ==
    req.served =>
        /\ \A res \in {"pass", "401", "raise"} :
              Ended("authz_required", res) =>
                  res = IF Satisfied(RouteReq, my_attrs(session, req.at))
                        THEN "pass" ELSE "401"
        /\ \A res \in {"pass", "401", "raise"} :
              Ended("authz_required_path", res) =>
                  \A r \in PathLayers :
                      res = IF Satisfied(r, my_attrs(session, req.at))
                            THEN "pass" ELSE "401"

\* C7: the authentication requirement runs for a request iff the route does
\* not disable it (authn is False) and the mode is opt-out, or the route is
\* marked authn, or the route carries an authz requirement.
C7_AuthnEnforcement ==
    req.served =>
        ((\E i \in 1..Len(Trace) : Trace[i].check = "auth_required") <=> ShouldEnforce)

C7_Witness ==
    /\ req.served
    /\ ~authn_all_routes
    /\ app_route.config.authn = "absent"
    /\ RouteReq # <<>>
    /\ Trace # <<>> /\ Trace[1].check = "auth_required"

\* C8: in opt-out mode an unauthenticated request to a route that does not
\* disable authentication is answered by the 302 of initiate_login, to the
\* IdP with next = the requested URL, and no attribute check has run.
C8_RedirectNot401 ==
    (/\ req.served
     /\ authn_all_routes
     /\ app_route.config.authn # "False"
     /\ ~is_authenticated(session, req.at))
    => /\ req.response.status = 302
       /\ req.response.location = "idp"
       /\ req.response.next = app_route.rule
       /\ Trace = <<[check |-> "auth_required", result |-> "login"]>>

C8_Witness ==
    /\ req.served
    /\ authn_all_routes
    /\ RouteReq # <<>>
    /\ PathLayers # {}
    /\ ~is_authenticated(session, req.at)
    /\ req.response.status = 302

\* C9: the route's own callback runs iff every check that applies passes:
\* authentication when enforced, the route's requirement when declared, the
\* prefix requirement when there is one.
C9_HandlerIffAllPass ==
    req.served =>
        ((req.response.status = 200 /\ req.response.body = "handler")
         <=> /\ ShouldEnforce => is_authenticated(session, req.at)
             /\ RouteReq # <<>> => authz_required(RouteReq, session, req.at) = "pass"
             /\ \A r \in PathLayers : authz_required_path(r, session, req.at) = "pass")

C9_Witness ==
    /\ req.served
    /\ ShouldEnforce
    /\ RouteReq # <<>>
    /\ PathLayers # {}
    /\ req.response.body = "handler"

\* /admin/dashboard in opt-out mode under the one prefix /admin requiring
\* role=admin, the route declaring no requirement of its own, for an
\* authenticated session
Scenario ==
    /\ req.served
    /\ authn_all_routes
    /\ authz_by_prefix = <<(<<(<<"/", "admin">>), RoleAdmin>>)>>
    /\ app_route.rule = <<"/", "admin", "/", "dashboard">>
    /\ RouteReq = <<>>
    /\ is_authenticated(session, req.at)
    /\ "role" \in Keys(session.attributes.claims)

\* C10: no prefix requirement is applied in opt-in mode; in opt-out mode the
\* one applied is the merge of the requirements of the prefixes the path
\* starts with, a later prefix overriding an earlier one for the same claim
\* (none when the merge is empty).  In the scenario, role [user] gets 401
\* and role [admin, user] gets the route's callback.
C10_PrefixRequirement ==
    req.served =>
        /\ ~authn_all_routes => PathLayers = {}
        /\ (authn_all_routes /\ PrefixClaims = {}) => PathLayers = {}
        /\ (authn_all_routes /\ PrefixClaims # {}) =>
              /\ Cardinality(PathLayers) = 1
              /\ \A r \in PathLayers :
                    /\ Keys(r) = PrefixClaims
                    /\ \A k \in PrefixClaims : Get(r, k) = LastFor(k)
        /\ (Scenario /\ Get(session.attributes.claims, "role") = List(<<"user">>))
              => req.response.status = 401
        /\ (Scenario /\ Get(session.attributes.claims, "role") = List(<<"admin", "user">>))
              => (req.response.status = 200 /\ req.response.body = "handler")

\* two prefixes match and both require the same claim, differently
C10_Witness ==
    /\ req.served
    /\ authn_all_routes
    /\ Cardinality(Matching) = 2
    /\ \E k \in PrefixClaims :
          /\ \A i \in Matching : k \in Keys(authz_by_prefix[i][2])
          /\ \E i \in Matching : Get(authz_by_prefix[i][2], k) # LastFor(k)
    /\ Ended("authz_required_path", "401")

(***************************************************************************)
(* Properties of the request ids (under SpecReqID)                         *)
(***************************************************************************)
\* C2: in strict mode, validating a request id new_requestID handed out
\* gives true when done at the time it was handed out, and false when done
\* after more than ttl seconds.
C2_FreshThenExpired ==
    (~idp_ok /\ vres.called /\ vres.reqid \in issued) =>
        /\ vres.at = vres.reqid.ts => vres.result = "True"
        /\ vres.at > vres.reqid.ts + ttl => vres.result = "False"

\* C3: in strict mode, validating a malformed request id (another prefix,
\* truncated, altered, made with another key, None) returns false and does
\* not raise, whatever the process configuration.
C3_MalformedIsFalse ==
    (~idp_ok /\ vres.called /\ vres.reqid \in Forged) => vres.result = "False"

\* a POST to /saml/acs of an anonymous browser with a valid response from
\* the configured issuer, in response to reqid
PostInResponseTo(reqid) ==
    [SAMLResponse |-> "valid", next |-> "",
     saml_resp |-> [NoAssertion EXCEPT !.name_id = "nid", !.issuer = saml_issuer,
                                       !.audience = saml_audience,
                                       !.in_response_to = reqid]]

\* C4: in permissive mode validate_requestID returns true for every input,
\* and so the ACS callback does not stop at its request-id step.
C4_PermissiveAcceptsAll ==
    (idp_ok /\ vres.called) =>
        /\ vres.result = "True"
        /\ LET r == finish_saml_login_work(EmptySession,
                                           PostInResponseTo(vres.reqid), "ok", vres.at)
           IN  /\ Step("validate_requestID", TRUE) \in Range(r.steps)
               /\ r.response.status = 302

C4_Witness ==
    /\ idp_ok
    /\ vres.called
    /\ vres.reqid = NoneReqID
    /\ vres.result = "True"

(***************************************************************************)
(* Properties of the session (under SpecSession)                           *)
(***************************************************************************)
\* the session has a username and attributes with an expiry timestamp
HasUsernameAndAttributes ==
    /\ Truthy(session.username)
    /\ session.attributes.kind = "dict"
    /\ session.attributes.saml.shape = "ok"

\* C5 as stated: is_authenticated is true iff the session has username and
\* attributes set and the expiry timestamp is later than the current time.
C5_ExpiryInFuture ==
    authres.called =>
        (authres.result <=>
            (HasUsernameAndAttributes /\ session.attributes.saml.expires > authres.at))

\* C5, amended: is_authenticated is true iff the session has a non-empty
\* username and attributes whose expiry timestamp is not earlier than the
\* current time (the session still counts in the second it expires); it is
\* false for every other session.
C5_ExpiryNotPast ==
    authres.called =>
        (authres.result <=>
            (HasUsernameAndAttributes /\ session.attributes.saml.expires >= authres.at))

C5_Witness ==
    /\ authres.called
    /\ authres.result
    /\ HasUsernameAndAttributes
    /\ session.attributes.saml.expires = authres.at
    /\ authres.at > 0

(***************************************************************************)
(* Properties of the login flow (under Spec)                               *)
(***************************************************************************)
\* the last POST to /saml/acs wrote username and attributes to the session
Written == Step("session", TRUE) \in Range(acs.steps)

\* the steps of the callback before the login hooks, in order
FirstSteps == <<"is_authenticated", "validate_response", "validate_requestID", "issuer">>

\* the steps were taken in order, none skipped, and nothing ran after a
\* step that failed
InOrder(steps) ==
    /\ \A i \in 1..Len(steps) :
          /\ i <= Len(FirstSteps) => steps[i].step = FirstSteps[i]
          /\ i > Len(FirstSteps) => steps[i].step \in {"login_hook", "session"}
          /\ steps[i].step = "session" =>
                i = Len(steps) /\ i > Len(FirstSteps) + 1
          /\ i < Len(steps) => steps[i].ok

C1_State ==
    acs.called =>
        /\ InOrder(acs.steps)
        /\ Written =>
              /\ \A i \in 1..Len(acs.steps) : acs.steps[i].ok
              /\ acs.form.SAMLResponse = "valid"
              /\ validate_requestID(acs.form.saml_resp.in_response_to, acs.at) = "True"
              /\ acs.form.saml_resp.issuer = saml_issuer
              /\ acs.response.status = 302

\* a step that sets the session's username or attributes is a callback
\* that went through every step
C1_Action ==
    (/\ session' # session
     /\ session' # EmptySession)
    => /\ acs'.called /\ acs'.at = now
       /\ Step("session", TRUE) \in Range(acs'.steps)
       /\ Len(acs'.steps) = Len(FirstSteps) + Len(login_hooks) + 1

\* C1: the ACS callback writes username and attributes to the session only
\* after, in this order, validate_response accepted the response,
\* validate_requestID returned true, the issuer matched and every login
\* hook returned; a step that fails is the last one of the invocation.
C1_WrittenOnlyAfterAllSteps == [](C1_State) /\ [][C1_Action]_vars

C1_Witness ==
    /\ acs.called
    /\ Written
    /\ Len(acs.steps) = Len(FirstSteps) + 3
    /\ ~idp_ok
    /\ Truthy(session.username)

\* the last POST to /saml/acs was turned away because the session was
\* authenticated
TurnedAway == acs.called /\ acs.response.body = "ACS invoked for authenticated user"

C11_State ==
    TurnedAway =>
        /\ acs.response.status = 400
        /\ acs.steps = <<Step("is_authenticated", FALSE)>>
        /\ is_authenticated(session, acs.at)

\* with an authenticated session no step changes the session, and a POST to
\* /saml/acs ends at its first step with the 400 of AppError
C11_Action ==
    is_authenticated(session, now) =>
        /\ session' = session
        /\ acs' # acs =>
              /\ acs'.response = AppError("ACS invoked for authenticated user")
              /\ acs'.steps = <<Step("is_authenticated", FALSE)>>

\* C11: a POST to /saml/acs with an authenticated session is rejected with
\* the client error 400 before the response is validated, and the session's
\* username and attributes stay exactly as they were.
C11_AuthenticatedRejected == [](C11_State) /\ [][C11_Action]_vars

\* an authenticated session was posted an assertion that an anonymous one
\* would have been logged in with
C11_Witness ==
    /\ TurnedAway
    /\ acs.form.SAMLResponse = "valid"
    /\ acs.form.saml_resp.issuer = saml_issuer
    /\ validate_requestID(acs.form.saml_resp.in_response_to, acs.at) = "True"
    /\ login_hooks = <<"__build_attrs_list">>
    /\ is_authenticated(session, now)
    /\ session.attributes.saml.expires = acs.at

\* this step is a POST to /saml/acs (or changes nothing)
PostStep == now' = now /\ issued' = issued /\ login_hooks' = login_hooks

\* the session holds data of a login that has expired
Stale == Truthy(session.username) /\ ~is_authenticated(session, acs.at)

C12_State ==
    (acs.called /\ ~TurnedAway /\ acs.form.SAMLResponse # "valid") =>
        /\ acs.response.status = 400
        /\ acs.response.body = "response_validation failed"
        /\ acs.steps = <<Step("is_authenticated", TRUE),
                         Step("validate_response", FALSE)>>

C12_Action ==
    (PostStep /\ acs'.called /\ acs'.form.SAMLResponse # "valid") =>
        session' = session

\* C12: a POST to /saml/acs without a SAMLResponse field, or with one that
\* validate_response refuses, is answered 400, and the session is left as
\* it was: neither written nor cleared.
C12_InvalidResponseRejected == [](C12_State) /\ [][C12_Action]_vars

\* a session with the data of an expired login keeps them
C12_Witness ==
    /\ acs.called
    /\ acs.form.SAMLResponse = "missing"
    /\ acs.response.status = 400
    /\ Stale
    /\ "role" \in Keys(session.attributes.claims)

\* the last POST to /saml/acs carried a response that validates, and the
\* session was not authenticated
ValidPost == acs.called /\ ~TurnedAway /\ acs.form.SAMLResponse = "valid"

\* validate_requestID did not accept the request id of the last POST
RequestIDFails ==
    validate_requestID(acs.form.saml_resp.in_response_to, acs.at) # "True"

\* C13: when validate_requestID does not accept the response's
\* InResponseTo, the callback is answered 400 at that step, before the
\* issuer is compared and the login hooks run, and the session is not
\* written.
C13_InvalidRequestIDRejected ==
    (ValidPost /\ RequestIDFails) =>
        /\ acs.response.status = 400
        /\ acs.steps = <<Step("is_authenticated", TRUE),
                         Step("validate_response", TRUE),
                         Step("validate_requestID", FALSE)>>
        /\ ~Written

\* This step is a POST to /saml/acs that carries, in a response that
\* validates, the request id that the POST before it carried, and more than
\* ttl seconds have passed since that POST (and so since the id was made).
SecondCallAfterTtl ==
    /\ acs.called /\ acs.form.SAMLResponse = "valid"
    /\ acs.form.saml_resp.in_response_to \in issued
    /\ acs.at + ttl < now
    /\ PostStep /\ acs'.called /\ acs'.at = now
    /\ acs'.form.SAMLResponse = "valid"
    /\ acs'.form.saml_resp.in_response_to = acs.form.saml_resp.in_response_to

\* C14 as stated: a second POST to /saml/acs with the same request id, made
\* after the ttl has elapsed, is answered with a client error and does not
\* establish a session.
C14_SecondCallRejected ==
    [][SecondCallAfterTtl =>
          /\ acs'.response.status = 400
          /\ Step("session", TRUE) \notin Range(acs'.steps)]_vars

\* C14, amended: in strict mode (idp_ok false) a second POST with the same
\* request id after the ttl does not establish a session and leaves the
\* session as it was; it is answered 400, or, when DEBUG is set and the
\* session is not authenticated, validate_requestID raises out of the
\* callback.  (In permissive mode the id is accepted at any age.)
C14_StrictSecondCallRejected ==
    [][(~idp_ok /\ SecondCallAfterTtl) =>
          /\ Step("session", TRUE) \notin Range(acs'.steps)
          /\ session' = session
          /\ \/ acs'.response.status = 400
             \/ /\ DEBUG /\ ~is_authenticated(session, now)
                /\ acs'.response = Response(500, "raise")]_vars

\* the id that logged the session in is posted again after the ttl, the
\* login having expired, and is refused
C14_Witness ==
    /\ ~idp_ok /\ ~DEBUG
    /\ ValidPost
    /\ acs.form.saml_resp.issuer = saml_issuer
    /\ acs.form.saml_resp.in_response_to \in issued
    /\ Stale
    /\ session.attributes.saml.request_id = acs.form.saml_resp.in_response_to
    /\ (session.attributes.saml.expires - auth_duration) + ttl < acs.at
    /\ acs.response = BadRequestError("Invalid Request")

\* the last POST carried a response that validates, with a request id that
\* validate_requestID accepts, from another issuer than config['issuer']
IssuerMismatch ==
    /\ ValidPost
    /\ ~RequestIDFails
    /\ acs.form.saml_resp.issuer # saml_issuer

C15_State ==
    IssuerMismatch =>
        /\ acs.response = ConflictError("Issuer mismatch")
        /\ acs.response.status = 400
        /\ acs.steps = <<Step("is_authenticated", TRUE),
                         Step("validate_response", TRUE),
                         Step("validate_requestID", TRUE),
                         Step("issuer", FALSE)>>

C15_Action ==
    (/\ PostStep /\ acs'.called /\ acs'.form.SAMLResponse = "valid"
     /\ acs'.form.saml_resp.issuer # saml_issuer)
    => session' = session

\* C15: a response that validates and whose request id is accepted, but
\* whose issuer is not config['issuer'], is answered with ConflictError
\* (status 400) at the issuer step: no login hook runs and the session is
\* not written.
C15_IssuerMismatchRejected == [](C15_State) /\ [][C15_Action]_vars

\* a request id handed out by this process, validated in strict mode, comes
\* back from another issuer
C15_Witness ==
    /\ IssuerMismatch
    /\ ~idp_ok
    /\ acs.form.saml_resp.in_response_to \in issued
    /\ acs.form.saml_resp.attributes # <<>>
    /\ acs.response.status = 400
    /\ session = EmptySession

\* a login hook of the last POST raised, or an assignment to the session did
HookOrWriteFailed ==
    /\ acs.called
    /\ \/ Step("login_hook", FALSE) \in Range(acs.steps)
       \/ Step("session", FALSE) \in Range(acs.steps)

C16_State ==
    HookOrWriteFailed =>
        /\ acs.response = ForbiddenError("login_hooks failed")
        /\ acs.response.status = 403
        /\ session.username.kind = "absent"
        /\ session.attributes.kind = "absent"
        /\ \A t \in 0..MaxTime : ~is_authenticated(session, t)

\* a POST that gets to the login hooks, one of which raises or whose result
\* the session store refuses, ends in 403 with the session cleared
C16_Action ==
    (/\ PostStep /\ acs'.called /\ acs'.at = now
     /\ ~is_authenticated(session, now)
     /\ acs'.form.SAMLResponse = "valid"
     /\ validate_requestID(acs'.form.saml_resp.in_response_to, now) = "True"
     /\ acs'.form.saml_resp.issuer = saml_issuer
     /\ ("raise" \in Range(login_hooks) \/ acs'.store # "ok"))
    => /\ acs'.response.status = 403
       /\ session' = EmptySession

\* C16: an exception in __build_attrs_list, in a login hook or in the
\* assignments to the session clears the session and is answered 403; the
\* session is then unauthenticated, without username and without
\* attributes, also when session['attributes'] had been assigned already.
C16_FailedHookClearsSession == [](C16_State) /\ [][C16_Action]_vars

\* the hooks returned, session['attributes'] was assigned, and
\* session['username'] = username raised
C16_Witness ==
    /\ HookOrWriteFailed
    /\ acs.store = "username"
    /\ Step("login_hook", FALSE) \notin Range(acs.steps)
    /\ Len(acs.steps) > Len(FirstSteps) + 2
    /\ acs.response.status = 403
    /\ session = EmptySession

(***************************************************************************)
(* Further properties of the authorization pipeline (under SpecAuth)       *)
(***************************************************************************)
\* decorator `check` ran for the last request
RanCheck(check) == \E i \in 1..Len(Trace) : Trace[i].check = check

\* an attribute check ran for the last request whose requirement the
\* session's attributes do not meet
Unmet ==
    /\ req.served
    /\ \/ /\ RanCheck("authz_required")
          /\ ~Satisfied(RouteReq, my_attrs(session, req.at))
       \/ /\ RanCheck("authz_required_path")
          /\ \E r \in PathLayers : ~Satisfied(r, my_attrs(session, req.at))

\* C17: when a requirement of the route or of its prefixes is not met, the
\* response is 401 with the body "Permission not granted" and the route's
\* callback is not run.
C17_UnmetIs401 ==
    Unmet =>
        /\ req.response.status = 401
        /\ req.response.body = "Permission not granted"
        /\ Trace[Len(Trace)].result = "401"

(***************************************************************************)
(* Properties of the extraction (under SpecExtract)                        *)
(***************************************************************************)
\* the claims of the assertion of the last extraction
Claims == extract.saml_resp.attributes

\* the names of the claims that are collected
CollectedNames ==
    { Claims[i].name : i \in { j \in 1..Len(Claims) : Claims[j].name \in Range(saml_attrs) } }

\* the values of the last claim of the assertion with that name
LastValues(name) ==
    LET having == { i \in 1..Len(Claims) : Claims[i].name = name }
        last == CHOOSE i \in having : \A j \in having : j <= i
    IN  Claims[last].values

\* username is the identity claim's value when that claim is collected, the
\* assertion's name_id otherwise; the attribute set has a username entry and
\* the '_saml' metadata of the assertion, expiring auth_duration from now
Extracted ==
    LET r == extract.result
    IN  /\ IF attr_uid \in CollectedNames
           THEN /\ r.username = Get(r.attributes.claims, attr_uid)
                /\ IF LastValues(attr_uid) = <<>> THEN r.username = None
                   ELSE AsList(r.username) = LastValues(attr_uid)
           ELSE r.username = Str(extract.saml_resp.name_id)
        /\ r.attributes.kind = "dict"
        /\ "username" \in Keys(r.attributes.claims)
        /\ r.attributes.saml.shape = "ok"
        /\ r.attributes.saml.name_id = extract.saml_resp.name_id
        /\ r.attributes.saml.request_id = extract.saml_resp.in_response_to
        /\ r.attributes.saml.issuer = extract.saml_resp.issuer
        /\ r.attributes.saml.audience = extract.saml_resp.audience
        /\ r.attributes.saml.expires = extract.at + auth_duration

\* C18 as stated: extraction resolves username to the identity claim's
\* value when collected and to name_id otherwise, the attribute set has a
\* username entry and metadata with expiry = now + auth_duration, and so
\* the expiry is greater than the current time.
C18_ExtractExpiryLater ==
    extract.called =>
        /\ Extracted
        /\ extract.result.attributes.saml.expires > extract.at

\* C18, amended: as above, the expiry being now + auth_duration, which is
\* greater than the current time when auth_duration is positive (and the
\* current time itself when auth_duration is 0).
C18_ExtractExpiry ==
    extract.called =>
        /\ Extracted
        /\ auth_duration > 0 => extract.result.attributes.saml.expires > extract.at
        /\ auth_duration = 0 => extract.result.attributes.saml.expires = extract.at

C18_Witness ==
    /\ extract.called
    /\ attr_uid = "uid"
    /\ "uid" \in CollectedNames
    /\ extract.result.username = Str("bob")
    /\ Get(extract.result.attributes.claims, "username") = Str("bob")
    /\ auth_duration = 0
    /\ extract.at > 0
    /\ extract.result.attributes.saml.expires = extract.at

\* the claim keys of the extracted attribute set: every key but 'username'
\* (and '_saml', which the model keeps apart)
ClaimKeys == Keys(extract.result.attributes.claims) \ {"username"}

\* C19: after extraction every claim key is in the allow-list as lower-cased
\* at load time; a claim of the assertion whose name is not in the
\* allow-list is not stored, and a claim whose name is in the allow-list as
\* configured is stored.
C19_AllowList ==
    extract.called =>
        /\ ClaimKeys \subseteq Range(LowerAll(assertions))
        /\ \A i \in 1..Len(Claims) :
              /\ (/\ Claims[i].name \notin Range(assertions)
                  /\ Claims[i].name \notin Range(LowerAll(assertions)))
                 => Claims[i].name \notin ClaimKeys
              /\ Claims[i].name \in Range(assertions)
                 => Claims[i].name \in Keys(extract.result.attributes.claims)

(***************************************************************************)
(* Properties of the installation (under SpecInstall)                      *)
(***************************************************************************)
\* the SamlAuth instances installed in the application
InstalledInstances == { p \in Range(app_plugins) : IsSamlAuth(p) }

C20_State ==
    /\ Cardinality(InstalledInstances) <= 1
    /\ (install.called /\ install.outcome = "PluginError") =>
          /\ IsSamlAuth(install.plugin)
          /\ install.plugin \notin InstalledInstances

\* installing a SamlAuth instance while another one is installed raises
\* PluginError and leaves app.plugins as it is
C20_Action ==
    (/\ install'.called /\ install' # install
     /\ IsSamlAuth(install'.plugin)
     /\ InstalledInstances \ {install'.plugin} # {})
    => /\ install'.outcome = "PluginError"
       /\ app_plugins' = app_plugins

\* C20: whatever is installed and removed, at most one SamlAuth instance is
\* among the application's plugins: app.install of a second instance raises
\* PluginError from its setup.
C20_OneInstance == [](C20_State) /\ [][C20_Action]_vars

\* the second instance was refused, the first one having been installed
\* twice (its own setup lets it in again)
C20_Witness ==
    /\ install.called
    /\ install.plugin = "auth2"
    /\ install.outcome = "PluginError"
    /\ InstalledInstances = {"auth1"}
    /\ Len(Without(app_plugins, "auth1")) = Len(app_plugins) - 2

(***************************************************************************)
(* Properties of every request (under SpecAuth and Spec)                   *)
(***************************************************************************)
\* C21: whatever the session and the requirement maps, a request to a
\* route ends in the route's own response, the redirect to the IdP or the
\* 401, and a POST to /saml/acs in the redirect, a 400 or the 403: no
\* exception leaves a decorator or the callback.
C21_NothingEscapes ==
    /\ req.served =>
          /\ req.response.body # "raise"
          /\ req.response.status \in {200, 302, 401}
          /\ \A i \in 1..Len(Trace) : Trace[i].result # "raise"
    /\ acs.called =>
          /\ acs.response.body # "raise"
          /\ acs.response.status \in {302, 400, 403}

(***************************************************************************)
(* Properties of a login (under Spec)                                      *)
(***************************************************************************)
\* the last POST to /saml/acs ended with the redirect to the relay state's
\* next, or to '/'
LoggedIn ==
    /\ acs.called
    /\ acs.response.status = 302
    /\ acs.response.location = IF acs.form.next # "" THEN acs.form.next ELSE "/"

\* C23: when the ACS callback ends with the success redirect, the session
\* it wrote is authenticated at once and for auth_duration seconds,
\* whatever the assertion (its identity claim may carry no value, or
\* several) and the auth_duration.
C23_SuccessIsAuthenticated ==
    LoggedIn =>
        \A t \in acs.at..(acs.at + auth_duration) : is_authenticated(session, t)

(***************************************************************************)
(* Properties of an expired session (under SpecAuth)                       *)
(***************************************************************************)
\* the session of the last request is one SamlSP wrote and whose expiry
\* had passed
Expired ==
    /\ req.served
    /\ HasUsernameAndAttributes
    /\ session.attributes.saml.expires < req.at

\* C24: a session whose expiry has passed is anonymous to the pipeline: on
\* a route that enforces authentication the request is redirected to the
\* IdP, and an attribute check that runs sees the unauthenticated marker,
\* not the stale attributes, and so denies.
C24_ExpiredIsAnonymous ==
    Expired =>
        /\ my_attrs(session, req.at) = Unauthenticated
        /\ ShouldEnforce =>
              /\ req.response.status = 302
              /\ req.response.location = "idp"
        /\ \A i \in 1..Len(Trace) :
              Trace[i].check \in {"authz_required", "authz_required_path"}
                  => Trace[i].result = "401"

(***************************************************************************)
(* Properties of concurrent callbacks (under SpecRace)                     *)
(***************************************************************************)
\* the last callback of browser b
Final(b) == browsers[b].final

\* in strict mode the callback of an unauthenticated session succeeds iff
\* the request id is not older than ttl, whatever the other browsers did
C22_State ==
    ~idp_ok =>
        \A b \in Browsers :
            (Final(b).called /\ Final(b).anonymous) =>
                IF Final(b).at <= Final(b).reqid.ts + ttl
                THEN /\ Final(b).response.status = 302
                     /\ is_authenticated(browsers[b].session, Final(b).at)
                ELSE /\ Final(b).response.status # 302
                     /\ ~is_authenticated(browsers[b].session, Final(b).at)

\* a callback changes the session of its browser only, and nothing of ReqID
C22_Action ==
    \A b \in Browsers :
        browsers'[b] # browsers[b] =>
            /\ \A c \in Browsers \ {b} : browsers'[c] = browsers[c]
            /\ issued' = issued
            /\ reqid_config' = reqid_config

\* C22: strict-mode validation keeps no record of the ids validated: the
\* same id validates again and again within its ttl, and callbacks of
\* different unauthenticated sessions with the same id, in any order,
\* each succeed or fail on the id's age alone.
C22_StatelessValidation == [](C22_State) /\ [][C22_Action]_vars

\* two browsers finalized the same request id, one after the other, and
\* both were logged in
C22_Witness ==
    /\ ~idp_ok
    /\ \A b \in Browsers : Final(b).called /\ Final(b).anonymous
    /\ Final(1).reqid = Final(2).reqid
    /\ Final(1).at < Final(2).at
    /\ Final(1).response.status = 302
    /\ Final(2).response.status = 302
    /\ is_authenticated(browsers[1].session, now)
    /\ is_authenticated(browsers[2].session, now)

=============================================================================
